---- MODULE Spec2Model ----
(***************************************************************************)
(* The blackjack game of src/game.rs: the Game aggregate (deck, phase, two *)
(* hands) and its single transition function Game::update, driven by the   *)
(* session loop of src/main.rs, which feeds it one Input per accepted key.  *)
(***************************************************************************)
EXTENDS Integers, Sequences, FiniteSets, TLC

(* Number of distinct outcomes of the random number generator that the     *)
(* model enumerates for one call of Game::shuffle.                         *)
NumSeeds == 12

(* Longest hand built in the specification of Hand::add_card alone.       *)
MaxHandLen == 4

Seeds == 1..NumSeeds

----------------------------------------------------------------------------
(* Card model: game.rs, enum CardNumber, enum Suit, struct Card, pack().   *)

CardNumber ==
  <<"Ace", "Two", "Three", "Four", "Five", "Six", "Seven", "Eight", "Nine",
    "Ten", "Jack", "Queen", "King">>

Suit == <<"Clubs", "Diamonds", "Spades", "Hearts">>

Card(number, suit) == <<number, suit>>

(* Suit::iter().flat_map(|suit| CardNumber::iter().map(|n| Card(n, suit))) *)
pack ==
  [i \in 1..(Len(Suit) * Len(CardNumber)) |->
     Card(CardNumber[((i - 1) % Len(CardNumber)) + 1],
          Suit[((i - 1) \div Len(CardNumber)) + 1])]

----------------------------------------------------------------------------
(* Phases: game.rs, enum Input, Choice, GameResult, Stage, State.          *)

Input == {"Continue", "Up", "Down"}

Choice == {"Hit", "Stand", "Surrender"}

GameResult == {"Win", "Lose", "Tie"}

Stage == {"First", "Second", "Third"}

Starting(stage) == <<"Starting", stage>>

Presenting == <<"Presenting">>

Selecting(choice) == <<"Selecting", choice>>

Standing == <<"Standing">>

GameOver(result) == <<"GameOver", result>>

----------------------------------------------------------------------------
(* Hand: game.rs, struct Hand { cards, points }.                           *)

Hand_new == [cards |-> <<>>, points |-> 0]

(* card_value with the Ace test left out: an Ace always counts 11.        *)
card_value_AceAlways11(points, number) ==
  CASE number = "Ace" -> 11
    [] number = "Two" -> 2
    [] number = "Three" -> 3
    [] number = "Four" -> 4
    [] number = "Five" -> 5
    [] number = "Six" -> 6
    [] number = "Seven" -> 7
    [] number = "Eight" -> 8
    [] number = "Nine" -> 9
    [] number \in {"Ten", "Jack", "Queen", "King"} -> 10

(* card_value with the Ace always counting 1.                             *)
card_value_AceAlways1(points, number) ==
  CASE number = "Ace" -> 1
    [] number = "Two" -> 2
    [] number = "Three" -> 3
    [] number = "Four" -> 4
    [] number = "Five" -> 5
    [] number = "Six" -> 6
    [] number = "Seven" -> 7
    [] number = "Eight" -> 8
    [] number = "Nine" -> 9
    [] number \in {"Ten", "Jack", "Queen", "King"} -> 10

(* Hand::add_card: the card's value is decided from the running total at   *)
(* the moment the card arrives; then the card is pushed.                   *)
card_value(points, number) ==
  CASE number = "Ace" -> IF points + 11 > 21 THEN 1 ELSE 11
    [] number = "Two" -> 2
    [] number = "Three" -> 3
    [] number = "Four" -> 4
    [] number = "Five" -> 5
    [] number = "Six" -> 6
    [] number = "Seven" -> 7
    [] number = "Eight" -> 8
    [] number = "Nine" -> 9
    [] number \in {"Ten", "Jack", "Queen", "King"} -> 10

add_card(hand, card) ==
  [cards |-> Append(hand.cards, card),
   points |-> hand.points + card_value(hand.points, card[1])]

----------------------------------------------------------------------------
(* Game: the state of the program.                                         *)

VARIABLES
  deck,        \* Game.deck: Vec<Card>, the draw pile; its last element is the top
  state,       \* Game.state: the current phase
  player,      \* Game.player: Hand
  dealer,      \* Game.dealer: Hand
  aborted,     \* TRUE once deck.pop().unwrap() has panicked and ended the session
  input,       \* the Input of the most recent update call ("None" before the first)
  prev_state   \* Game.state as it was when the most recent update call began

vars == <<deck, state, player, dealer, aborted, input, prev_state>>

(* The Game value held by the variables.                                   *)
Game ==
  [deck |-> deck, state |-> state, player |-> player, dealer |-> dealer,
   aborted |-> aborted]

(* Game::new()                                                             *)
Game_new ==
  [deck |-> pack, state |-> Starting("First"), player |-> Hand_new,
   dealer |-> Hand_new, aborted |-> FALSE]

----------------------------------------------------------------------------
(* Game::shuffle: self.deck.shuffle(&mut rand::thread_rng()).  The slice   *)
(* shuffle walks i from the last index down to 1 and swaps element i with  *)
(* a random index in 0..=i, so the result is some permutation of the deck, *)
(* and which one does not depend on the order the deck had before.  The    *)
(* random stream is an input: the model enumerates NumSeeds streams, each  *)
(* the output of a small congruential generator started from its seed, and *)
(* applies the walk to the deck's cards laid out in pack order, so that    *)
(* the same NumSeeds arrangements are on offer in every round.             *)

next_random(x) == (x * 137 + 187) % 256

swap(d, i, j) == [d EXCEPT ![i] = d[j], ![j] = d[i]]

RECURSIVE shuffle_from(_, _, _)
shuffle_from(d, i, x) ==
  IF i < 2 THEN d
  ELSE LET r == next_random(x) IN
       shuffle_from(swap(d, i, (r % i) + 1), i - 1, r)

(* The position of each card in pack order.                                *)
card_index ==
  [number \in {CardNumber[i] : i \in 1..Len(CardNumber)},
   suit \in {Suit[i] : i \in 1..Len(Suit)} |->
     CHOOSE i \in 1..Len(pack) : pack[i] = Card(number, suit)]

(* The cards of d sorted by pack position; when d holds no card twice this *)
(* is the pack with the cards that are not in d left out.                  *)
in_pack_order(d) ==
  LET held == {d[i] : i \in 1..Len(d)} IN
  IF Cardinality(held) = Len(d)
  THEN SelectSeq(pack, LAMBDA c : c \in held)
  ELSE SortSeq(d, LAMBDA a, b : card_index[a[1], a[2]] < card_index[b[1], b[2]])

shuffle(d, seed) == shuffle_from(in_pack_order(d), Len(d), seed)

----------------------------------------------------------------------------
(* Game::deal_player, Game::deal_dealer: deck.pop().unwrap() panics on an  *)
(* empty deck, which ends the session before anything else is written.     *)

deal_player(g) ==
  IF g.deck = <<>> THEN [g EXCEPT !.aborted = TRUE]
  ELSE [g EXCEPT !.player = add_card(@, g.deck[Len(g.deck)]),
                 !.deck = SubSeq(g.deck, 1, Len(g.deck) - 1)]

(* deal_dealer taking the first card of the deck instead of the last.      *)
deal_dealer_FromBottom(g) ==
  IF g.deck = <<>> THEN [g EXCEPT !.aborted = TRUE]
  ELSE [g EXCEPT !.dealer = add_card(@, g.deck[1]),
                 !.deck = SubSeq(g.deck, 2, Len(g.deck))]

deal_dealer(g) ==
  IF g.deck = <<>> THEN [g EXCEPT !.aborted = TRUE]
  ELSE [g EXCEPT !.dealer = add_card(@, g.deck[Len(g.deck)]),
                 !.deck = SubSeq(g.deck, 1, Len(g.deck) - 1)]

(* self.state = <value of the arm>, skipped when the arm panicked.         *)
set_state(g, s) == IF g.aborted THEN g ELSE [g EXCEPT !.state = s]

----------------------------------------------------------------------------
(* Game::update, arm by arm.                                               *)

(* StartingArm ending the opening deal in Presenting.                      *)
StartingArm_ToPresenting(g, stage, seed) ==
  CASE stage = "First" ->
         set_state(deal_player([g EXCEPT !.deck = shuffle(@, seed)]),
                   Starting("Second"))
    [] stage = "Second" -> set_state(deal_dealer(g), Starting("Third"))
    [] stage = "Third" -> set_state(deal_player(g), Presenting)

(* StartingArm with the second card of the opening deal going to the       *)
(* player instead of the dealer.                                           *)
StartingArm_SecondToPlayer(g, stage, seed) ==
  CASE stage = "First" ->
         set_state(deal_player([g EXCEPT !.deck = shuffle(@, seed)]),
                   Starting("Second"))
    [] stage = "Second" -> set_state(deal_player(g), Starting("Third"))
    [] stage = "Third" -> set_state(deal_player(g), Selecting("Hit"))

(* Starting(stage) if input == Continue                                    *)
StartingArm(g, stage, seed) ==
  CASE stage = "First" ->
         set_state(deal_player([g EXCEPT !.deck = shuffle(@, seed)]),
                   Starting("Second"))
    [] stage = "Second" -> set_state(deal_dealer(g), Starting("Third"))
    [] stage = "Third" -> set_state(deal_player(g), Selecting("Hit"))

(* HitArm with the bust test off by one: a total of 21 already loses.      *)
(* HitArm that deals no card.                                             *)
HitArm_NoDraw(g) == set_state(g, Selecting("Hit"))

(* HitArm with the bust test off by one: a total of 22 plays on.           *)
HitArm_BustAbove22(g) ==
  LET g1 == deal_player(g) IN
  set_state(g1, IF g1.player.points > 22 THEN GameOver("Lose")
                ELSE Selecting("Hit"))

(* HitArm with the bust test off by one: a total of 21 loses.              *)
HitArm_BustAt21(g) ==
  LET g1 == deal_player(g) IN
  set_state(g1, IF g1.player.points >= 21 THEN GameOver("Lose")
                ELSE Selecting("Hit"))

(* (Continue, Hit)                                                         *)
HitArm(g) ==
  LET g1 == deal_player(g) IN
  set_state(g1, IF g1.player.points > 21 THEN GameOver("Lose")
                ELSE Selecting("Hit"))

(* StandArm with equal totals settled as a win.                            *)
StandArm_TieWins(g) ==
  LET g1 == deal_dealer(g) IN
  set_state(g1,
    IF g1.dealer.points > 21 THEN GameOver("Win")
    ELSE IF g1.dealer.points < 17 THEN Standing
    ELSE IF g1.dealer.points > g1.player.points THEN GameOver("Lose")
    ELSE IF g1.dealer.points <= g1.player.points THEN GameOver("Win")
    ELSE GameOver("Tie"))

(* StandArm with the comparison off by one: equal totals lose.             *)
StandArm_TieLoses(g) ==
  LET g1 == deal_dealer(g) IN
  set_state(g1,
    IF g1.dealer.points > 21 THEN GameOver("Win")
    ELSE IF g1.dealer.points < 17 THEN Standing
    ELSE IF g1.dealer.points >= g1.player.points THEN GameOver("Lose")
    ELSE IF g1.dealer.points < g1.player.points THEN GameOver("Win")
    ELSE GameOver("Tie"))

(* (Continue, Stand)                                                       *)
StandArm(g) ==
  LET g1 == deal_dealer(g) IN
  set_state(g1,
    IF g1.dealer.points > 21 THEN GameOver("Win")
    ELSE IF g1.dealer.points < 17 THEN Standing
    ELSE IF g1.dealer.points > g1.player.points THEN GameOver("Lose")
    ELSE IF g1.dealer.points < g1.player.points THEN GameOver("Win")
    ELSE GameOver("Tie"))

(* UpArm that only toggles between Hit and Stand.                          *)
UpArm_Toggle(choice) ==
  CASE choice = "Hit" -> Selecting("Stand")
    [] choice = "Stand" -> Selecting("Hit")
    [] choice = "Surrender" -> Selecting("Hit")

(* (Up, choice)                                                            *)
UpArm(choice) ==
  CASE choice = "Hit" -> Selecting("Stand")
    [] choice = "Stand" -> Selecting("Surrender")
    [] choice = "Surrender" -> Selecting("Hit")

(* (Down, choice)                                                          *)
DownArm(choice) ==
  CASE choice = "Hit" -> Selecting("Stand")
    [] choice = "Stand" -> Selecting("Surrender")
    [] choice = "Surrender" -> Selecting("Hit")

(* SelectingArm with Surrender settled by comparing the totals.            *)
SelectingArm_SurrenderCompares(g, in, choice) ==
  CASE in = "Continue" /\ choice = "Hit" -> HitArm(g)
    [] in = "Continue" /\ choice = "Stand" -> StandArm(g)
    [] in = "Continue" /\ choice = "Surrender" ->
         set_state(g, IF g.player.points > g.dealer.points
                      THEN GameOver("Win") ELSE GameOver("Lose"))
    [] in = "Up" -> set_state(g, UpArm(choice))
    [] in = "Down" -> set_state(g, DownArm(choice))

(* Selecting(choice) => match (input, choice)                              *)
SelectingArm(g, in, choice) ==
  CASE in = "Continue" /\ choice = "Hit" -> HitArm(g)
    [] in = "Continue" /\ choice = "Stand" -> StandArm(g)
    [] in = "Continue" /\ choice = "Surrender" ->
         set_state(g, GameOver("Lose"))
    [] in = "Up" -> set_state(g, UpArm(choice))
    [] in = "Down" -> set_state(g, DownArm(choice))

(* Presenting => Selecting(Hit): the arm has no guard on the input.        *)
PresentingArm(g) == set_state(g, Selecting("Hit"))

(* StandingArm without any test of the total: the dealer draws for ever.   *)
StandingArm_NeverStops(g) == set_state(deal_dealer(g), Standing)

(* StandingArm with the threshold off by one: the dealer draws on 17.      *)
StandingArm_DrawsOn17(g) ==
  LET g1 == deal_dealer(g) IN
  set_state(g1,
    IF g1.dealer.points > 21 THEN GameOver("Win")
    ELSE IF g1.dealer.points <= 17 THEN Standing
    ELSE IF g1.dealer.points > g1.player.points THEN GameOver("Lose")
    ELSE IF g1.dealer.points < g1.player.points THEN GameOver("Win")
    ELSE GameOver("Tie"))

(* Standing if input == Continue                                           *)
StandingArm(g) ==
  LET g1 == deal_dealer(g) IN
  set_state(g1,
    IF g1.dealer.points > 21 THEN GameOver("Win")
    ELSE IF g1.dealer.points < 17 THEN Standing
    ELSE IF g1.dealer.points > g1.player.points THEN GameOver("Lose")
    ELSE IF g1.dealer.points < g1.player.points THEN GameOver("Win")
    ELSE GameOver("Tie"))

(* GameOverArm without the second append: the player's cards are dropped. *)
GameOverArm_DropsPlayerCards(g) ==
  [g EXCEPT !.deck = g.deck \o g.dealer.cards,
            !.dealer = [cards |-> <<>>, points |-> 0],
            !.player = [cards |-> <<>>, points |-> 0],
            !.state = Starting("First")]

(* GameOverArm without `self.dealer.points = 0`.                           *)
GameOverArm_KeepsDealerPoints(g) ==
  [g EXCEPT !.deck = (g.deck \o g.dealer.cards) \o g.player.cards,
            !.dealer = [cards |-> <<>>, points |-> g.dealer.points],
            !.player = [cards |-> <<>>, points |-> 0],
            !.state = Starting("First")]

(* GameOver(_) if input == Continue                                        *)
GameOverArm(g) ==
  LET d1 == g.deck \o g.dealer.cards
      d2 == d1 \o g.player.cards
  IN [g EXCEPT !.deck = d2,
               !.dealer = [cards |-> <<>>, points |-> 0],
               !.player = [cards |-> <<>>, points |-> 0],
               !.state = Starting("First")]

(* update with the guard `if input == Continue` missing on the GameOver    *)
(* arm.                                                                    *)
update_GameOverUnguarded(g, in, seed) ==
  CASE g.state[1] = "Starting" /\ in = "Continue" ->
         StartingArm(g, g.state[2], seed)
    [] g.state[1] = "Selecting" -> SelectingArm(g, in, g.state[2])
    [] g.state[1] = "Presenting" -> PresentingArm(g)
    [] g.state[1] = "Standing" /\ in = "Continue" -> StandingArm(g)
    [] g.state[1] = "GameOver" -> GameOverArm(g)
    [] OTHER -> g

(* The match of Game::update; the last arm is `_ => self.state.clone()`.   *)
update(g, in, seed) ==
  CASE g.state[1] = "Starting" /\ in = "Continue" ->
         StartingArm(g, g.state[2], seed)
    [] g.state[1] = "Selecting" -> SelectingArm(g, in, g.state[2])
    [] g.state[1] = "Presenting" -> PresentingArm(g)
    [] g.state[1] = "Standing" /\ in = "Continue" -> StandingArm(g)
    [] g.state[1] = "GameOver" /\ in = "Continue" -> GameOverArm(g)
    [] OTHER -> g

----------------------------------------------------------------------------
(* The session loop of main.rs: one accepted key, one update call.         *)

Init ==
  /\ deck = Game_new.deck
  /\ state = Game_new.state
  /\ player = Game_new.player
  /\ dealer = Game_new.dealer
  /\ aborted = Game_new.aborted
  /\ input = "None"
  /\ prev_state = <<"None">>

(* game.update(in), with the random stream `seed` for the shuffle.         *)
Call(in, seed) ==
  /\ ~aborted
  /\ LET g == update(Game, in, seed) IN
       /\ deck' = g.deck
       /\ state' = g.state
       /\ player' = g.player
       /\ dealer' = g.dealer
       /\ aborted' = g.aborted
  /\ input' = in
  /\ prev_state' = state

(* Only the Starting(First) arm shuffles, so only there the seed matters.  *)
SeedsOf(in) ==
  IF state = Starting("First") /\ in = "Continue" THEN Seeds ELSE {1}

(* Char(' ') | Char('\n') => game.update(Input::Continue)                   *)
KeyContinue == \E seed \in SeedsOf("Continue") : Call("Continue", seed)

(* Up => game.update(Input::Up)                                             *)
KeyUp == \E seed \in SeedsOf("Up") : Call("Up", seed)

(* Down => game.update(Input::Down)                                         *)
KeyDown == \E seed \in SeedsOf("Down") : Call("Down", seed)

Next == KeyContinue \/ KeyUp \/ KeyDown

Spec == Init /\ [][Next]_vars

(* The key loop fed an input sequence that holds infinitely many Continue  *)
(* keys, with any Up and Down keys in between.  The loop blocks on         *)
(* read_key and handles every key it is given, and KeyContinue is enabled  *)
(* in every state that has not panicked and always changes the state, so   *)
(* this is what weak fairness of KeyContinue amounts to.                   *)
SpecLive == Init /\ [][Next]_vars /\ []<><<KeyContinue>>_vars

----------------------------------------------------------------------------
(* update applied to a Game whose phase is Presenting.  No transition      *)
(* produces that phase, so the specification starts there: the hands and   *)
(* the deck are those of a finished opening deal, the point at which the   *)
(* initial hands would be shown.                                           *)

OpeningDeal(seed) ==
  update(update(update(Game_new, "Continue", seed), "Continue", seed),
         "Continue", seed)

InitPresenting ==
  \E seed \in Seeds :
    /\ deck = OpeningDeal(seed).deck
    /\ state = Presenting
    /\ player = OpeningDeal(seed).player
    /\ dealer = OpeningDeal(seed).dealer
    /\ aborted = FALSE
    /\ input = "None"
    /\ prev_state = <<"None">>

SpecPresenting == InitPresenting /\ [][Next]_vars

----------------------------------------------------------------------------
(* The second Hand, of game/card.rs: it keeps the cards only and computes  *)
(* the total on demand, in u8 arithmetic.                                  *)

u8(x) == x % 256

card_rs_Hand_new == [cards |-> <<>>]

card_rs_add_card(hand, card) == [cards |-> Append(hand.cards, card)]

(* The closure of the fold with the Ace test off by one.                   *)
card_rs_step_AceAt21(it, number) ==
  CASE number = "Ace" -> IF u8(it + 11) >= 21 THEN u8(it + 1) ELSE u8(it + 11)
    [] number = "Two" -> u8(it + 2)
    [] number = "Three" -> u8(it + 3)
    [] number = "Four" -> u8(it + 4)
    [] number = "Five" -> u8(it + 5)
    [] number = "Six" -> u8(it + 6)
    [] number = "Seven" -> u8(it + 7)
    [] number = "Eight" -> u8(it + 8)
    [] number = "Nine" -> u8(it + 9)
    [] number \in {"Ten", "Jack", "Queen", "King"} -> u8(it + 10)

(* The closure of the fold in Hand::points: |it, Card(n, _)| match n.      *)
card_rs_step(it, number) ==
  CASE number = "Ace" -> IF u8(it + 11) > 21 THEN u8(it + 1) ELSE u8(it + 11)
    [] number = "Two" -> u8(it + 2)
    [] number = "Three" -> u8(it + 3)
    [] number = "Four" -> u8(it + 4)
    [] number = "Five" -> u8(it + 5)
    [] number = "Six" -> u8(it + 6)
    [] number = "Seven" -> u8(it + 7)
    [] number = "Eight" -> u8(it + 8)
    [] number = "Nine" -> u8(it + 9)
    [] number \in {"Ten", "Jack", "Queen", "King"} -> u8(it + 10)

(* self.cards.iter().fold(0, ...) over the first n cards.                  *)
RECURSIVE card_rs_fold(_, _)
card_rs_fold(cards, n) ==
  IF n = 0 THEN 0
  ELSE card_rs_step(card_rs_fold(cards, n - 1), cards[n][1])

(* Hand::points of game/card.rs.                                           *)
card_rs_points(hand) == card_rs_fold(hand.cards, Len(hand.cards))

----------------------------------------------------------------------------
(* Hand::add_card on its own: a hand that starts empty and is given any    *)
(* card of any rank, in any order, with repeats, up to MaxHandLen cards.   *)
(* add_card reads the rank only, so one suit stands for all four.          *)

HandCards == {Card(CardNumber[i], Suit[1]) : i \in 1..Len(CardNumber)}

InitHand == Init

AddCard ==
  \E card \in HandCards :
    /\ Len(player.cards) < MaxHandLen
    /\ player' = add_card(player, card)
    /\ UNCHANGED <<deck, state, dealer, aborted, input, prev_state>>

NextHand == AddCard

SpecHand == InitHand /\ [][NextHand]_vars

----------------------------------------------------------------------------
(* Properties.                                                             *)

Range(s) == {s[i] : i \in 1..Len(s)}

Front(s) == SubSeq(s, 1, Len(s) - 1)

Last(s) == s[Len(s)]

AllCards == deck \o player.cards \o dealer.cards

(* C1: card conservation.  In every reachable state the deck and the two   *)
(* hands hold 52 cards together, and these are exactly the 52 distinct     *)
(* (rank, suit) pairs of pack(): none missing, none twice.                 *)
C1_Conservation ==
  /\ Len(deck) + Len(player.cards) + Len(dealer.cards) = 52
  /\ Cardinality(Range(pack)) = 52
  /\ Range(AllCards) = Range(pack)
  /\ Cardinality(Range(AllCards)) = Len(AllCards)

(* A state in the middle of a round, with cards in all three containers.   *)
C1_Witness ==
  /\ state = Standing
  /\ Len(player.cards) >= 3
  /\ Len(dealer.cards) >= 2
  /\ Len(deck) > 0

(* C2: no draw from an empty deck.  deck.pop().unwrap() never fails, so    *)
(* no update call aborts the session, and every deal finds a card.         *)
C2_NoEmptyDraw == ~aborted

(* A state reached by a deal late in a round: seven cards are out.         *)
C2_Witness ==
  /\ input = "Continue"
  /\ ~aborted
  /\ Len(player.cards) + Len(dealer.cards) >= 7
  /\ Len(deck) + 7 <= 52

(* The dealer-resolution rule as the specification words it.               *)
Resolution(d, p) ==
  IF d > 21 THEN GameOver("Win")
  ELSE IF d < 17 THEN Standing
  ELSE IF d > p THEN GameOver("Lose")
  ELSE IF d < p THEN GameOver("Win")
  ELSE GameOver("Tie")

(* C3: Continue from Selecting(Stand) and Continue from Standing do the    *)
(* same thing: exactly one card, the top of the deck, goes to the dealer,  *)
(* none to the player, and the next phase follows the resolution rule.     *)
C3_DealerResolution ==
  [][(state \in {Selecting("Stand"), Standing} /\ input' = "Continue") =>
       /\ ~aborted'
       /\ deck # <<>>
       /\ deck' = Front(deck)
       /\ dealer'.cards = Append(dealer.cards, Last(deck))
       /\ player' = player
       /\ state' = Resolution(dealer'.points, player.points)]_vars

(* The Standing loop has ended a round in a tie.                           *)
C3_Witness ==
  /\ prev_state = Standing
  /\ input = "Continue"
  /\ state = GameOver("Tie")

(* C4: the dealer stands on 17.  In phase Standing the dealer's total is   *)
(* below 17, and a dealer total of 17 or more is only ever seen in a       *)
(* GameOver phase, where no card is drawn any more.                        *)
C4_StandOn17 ==
  /\ [](state = Standing => dealer.points < 17)
  /\ [](dealer.points >= 17 => state[1] = "GameOver")
  /\ [][dealer.points >= 17 => Len(dealer'.cards) <= Len(dealer.cards)]_vars

(* The Standing loop stopped because the dealer reached 17..21.            *)
C4_Witness ==
  /\ prev_state = Standing
  /\ input = "Continue"
  /\ state[1] = "GameOver"
  /\ dealer.points >= 17
  /\ dealer.points <= 21

(* C5: Continue from Selecting(Hit) deals exactly one card, the top of the *)
(* deck, to the player; the next phase is GameOver(Lose) if the player's   *)
(* total is then above 21 and Selecting(Hit) otherwise; the dealer's hand  *)
(* is not changed and plays no part.                                       *)
C5_BustTransition ==
  [][(state = Selecting("Hit") /\ input' = "Continue") =>
       /\ ~aborted'
       /\ deck # <<>>
       /\ deck' = Front(deck)
       /\ player'.cards = Append(player.cards, Last(deck))
       /\ dealer' = dealer
       /\ state' = IF player'.points > 21 THEN GameOver("Lose")
                    ELSE Selecting("Hit")]_vars

(* A hit has busted the player.                                            *)
C5_Witness ==
  /\ prev_state = Selecting("Hit")
  /\ input = "Continue"
  /\ state = GameOver("Lose")
  /\ player.points > 21

(* C6: round reset.  Continue from any GameOver phase leads to             *)
(* Starting(First) with both hands empty at zero points and all 52 cards   *)
(* back in the deck, the former draw pile still in its order underneath.   *)
C6_RoundReset ==
  [][(state[1] = "GameOver" /\ input' = "Continue") =>
       /\ state' = Starting("First")
       /\ player'.cards = <<>> /\ player'.points = 0
       /\ dealer'.cards = <<>> /\ dealer'.points = 0
       /\ Len(deck') = 52
       /\ Range(deck') = Range(pack)
       /\ SubSeq(deck', 1, Len(deck)) = deck]_vars

(* A round has been played and reset: the deck is full again, no longer in *)
(* the order of a fresh pack.                                              *)
C6_Witness ==
  /\ prev_state[1] = "GameOver"
  /\ input = "Continue"
  /\ state = Starting("First")
  /\ Len(deck) = 52
  /\ deck # pack

(* C7: the opening deal.  Every Starting(First) state has empty hands and  *)
(* a full deck, and three Continue inputs from it pass through             *)
(* Starting(Second), Starting(Third) and Selecting(Hit), dealing to the    *)
(* player, the dealer and the player: 2, 1 and 49 cards afterwards.        *)
C7_OpeningDeal ==
  /\ [](state = Starting("First") =>
          Len(player.cards) = 0 /\ Len(dealer.cards) = 0 /\ Len(deck) = 52)
  /\ [][((state = Starting("First") /\ input' = "Continue") =>
            (/\ state' = Starting("Second")
             /\ Len(player'.cards) = 1
             /\ dealer' = dealer
             /\ Len(deck') = 51))
        /\
        ((state = Starting("Second") /\ input' = "Continue") =>
            (/\ state' = Starting("Third")
             /\ Len(dealer'.cards) = 1
             /\ player' = player
             /\ Len(deck') = 50))
        /\
        ((state = Starting("Third") /\ input' = "Continue") =>
            (/\ state' = Selecting("Hit")
             /\ Len(player'.cards) = 2
             /\ dealer' = dealer
             /\ Len(dealer.cards) = 1
             /\ Len(deck') = 49))]_vars

(* The opening deal has just finished.                                     *)
C7_Witness ==
  /\ prev_state = Starting("Third")
  /\ input = "Continue"
  /\ state = Selecting("Hit")
  /\ Len(player.cards) = 2 /\ Len(dealer.cards) = 1 /\ Len(deck) = 49

(* C8: Down is the inverse of Up.  From Selecting(c), Up followed by Down  *)
(* returns to Selecting(c), and so does Down followed by Up.               *)
C8_DownInvertsUp ==
  [][(prev_state[1] = "Selecting" /\
      ((input = "Up" /\ input' = "Down") \/ (input = "Down" /\ input' = "Up")))
       => state' = prev_state]_vars

(* C9: Up and Down are no-ops outside the menu.  In Starting, Standing and *)
(* GameOver phases they change neither the phase, nor the deck, nor either *)
(* hand's cards or total.                                                  *)
C9_NoOpInputs ==
  [][(state[1] \in {"Starting", "Standing", "GameOver"} /\
      input' \in {"Up", "Down"})
       => UNCHANGED <<deck, state, player, dealer, aborted>>]_vars

(* Up or Down has been pressed after the round was over.                   *)
C9_Witness ==
  /\ input \in {"Up", "Down"}
  /\ prev_state[1] = "GameOver"
  /\ state = prev_state

(* C10: Presenting handles only Continue.  From Presenting, Up and Down    *)
(* change nothing, and Continue moves to Selecting(Hit) without a deal.    *)
C10_PresentingOnlyContinue ==
  [][state = Presenting =>
       /\ input' \in {"Up", "Down"} =>
            UNCHANGED <<deck, state, player, dealer, aborted>>
       /\ input' = "Continue" =>
            /\ state' = Selecting("Hit")
            /\ UNCHANGED <<deck, player, dealer, aborted>>]_vars

(* The value of a card as the specification words the Ace rule.            *)
RuleValue(total, number) ==
  IF number = "Ace" THEN (IF total + 11 <= 21 THEN 11 ELSE 1)
  ELSE IF number \in {"Ten", "Jack", "Queen", "King"} THEN 10
  ELSE CHOOSE v \in 2..9 : CardNumber[v] = number

(* The left fold of the rule over the first n cards, starting from 0.      *)
RECURSIVE RuleTotal(_, _)
RuleTotal(cards, n) ==
  IF n = 0 THEN 0
  ELSE LET t == RuleTotal(cards, n - 1) IN t + RuleValue(t, cards[n][1])

(* The hand built by add_card from the empty hand, card by card.           *)
RECURSIVE HandOf(_, _)
HandOf(cards, n) ==
  IF n = 0 THEN Hand_new ELSE add_card(HandOf(cards, n - 1), cards[n])

(* C11: in every reachable state each hand's points is the left fold of    *)
(* the Ace rule over its cards in the order held, starting from 0: an Ace  *)
(* adds 11 if the running total + 11 <= 21 and 1 otherwise, and is never   *)
(* re-valued; [Ace] = 11, [Ace, Ace] = 12, [King, Ace] = 21, [] = 0.       *)
C11_IncrementalAceRule ==
  /\ player.points = RuleTotal(player.cards, Len(player.cards))
  /\ dealer.points = RuleTotal(dealer.cards, Len(dealer.cards))
  /\ player.cards = <<>> => player.points = 0
  /\ dealer.cards = <<>> => dealer.points = 0
  /\ HandOf(<<Card("Ace", "Clubs")>>, 1).points = 11
  /\ HandOf(<<Card("Ace", "Clubs"), Card("Ace", "Hearts")>>, 2).points = 12
  /\ HandOf(<<Card("King", "Clubs"), Card("Ace", "Hearts")>>, 2).points = 21

(* The player holds an Ace that arrived when 11 would have gone over 21,   *)
(* and so counts 1.                                                        *)
C11_Witness ==
  \E i \in 1..Len(player.cards) :
    /\ player.cards[i][1] = "Ace"
    /\ RuleTotal(player.cards, i - 1) + 11 > 21

(* C12: Continue from Selecting(Surrender) ends the round as               *)
(* GameOver(Lose) whatever the two totals are, and deals nothing: the deck *)
(* and both hands, cards and totals, are unchanged.                        *)
C12_Surrender ==
  [][(state = Selecting("Surrender") /\ input' = "Continue") =>
       /\ state' = GameOver("Lose")
       /\ UNCHANGED <<deck, player, dealer, aborted>>]_vars

(* The player has surrendered a hand that was ahead of the dealer's.       *)
C12_Witness ==
  /\ prev_state = Selecting("Surrender")
  /\ input = "Continue"
  /\ state = GameOver("Lose")
  /\ player.points > dealer.points
  /\ player.points <= 21

(* C13: Presenting is a dead state: no sequence of inputs from Game::new() *)
(* ever produces the phase Presenting.                                     *)
C13_PresentingUnreachable == state # Presenting

(* The end of the opening deal, where the initial hands would be shown:    *)
(* the phase is Selecting(Hit).                                            *)
C13_Witness ==
  /\ prev_state = Starting("Third")
  /\ state = Selecting("Hit")
  /\ state # Presenting

(* C14: the deck is a draw pile.  Whenever the deck changes, either its    *)
(* last card went to the end of exactly one hand and the rest of the deck  *)
(* and the other hand stayed as they were, or the step is Continue from    *)
(* Starting(First), which rearranges the deck and deals its new top card   *)
(* to the player, or it is Continue from GameOver, which appends the       *)
(* dealer's and then the player's cards.  No other phase reorders it.      *)
C14_DrawPile ==
  [][deck' # deck =>
       \/ /\ state = Starting("First") /\ input' = "Continue"
          /\ Len(deck') = Len(deck) - 1
          /\ player'.cards = Append(player.cards, Last(player'.cards))
          /\ Range(deck') \cup {Last(player'.cards)} = Range(deck)
          /\ dealer' = dealer
       \/ /\ state[1] = "GameOver" /\ input' = "Continue"
          /\ deck' = (deck \o dealer.cards) \o player.cards
       \/ /\ state # Starting("First") /\ state[1] # "GameOver"
          /\ deck # <<>>
          /\ deck' = Front(deck)
          /\ \/ player'.cards = Append(player.cards, Last(deck))
                /\ dealer' = dealer
             \/ dealer'.cards = Append(dealer.cards, Last(deck))
                /\ player' = player]_vars

(* The dealer has drawn a third card, in the middle of a round.            *)
C14_Witness ==
  /\ prev_state = Standing
  /\ input = "Continue"
  /\ Len(dealer.cards) >= 3
  /\ Len(deck) + Len(dealer.cards) + Len(player.cards) = 52

(* The strict blackjack value of a hand: the highest total not above 21    *)
(* that valuing each Ace as 1 or 11 can give, or the total with every Ace  *)
(* as 1 when none is.                                                      *)
RECURSIVE HardTotal(_, _)
HardTotal(cards, n) ==
  IF n = 0 THEN 0
  ELSE HardTotal(cards, n - 1) +
       (IF cards[n][1] = "Ace" THEN 1 ELSE RuleValue(0, cards[n][1]))

Aces(cards) == {i \in 1..Len(cards) : cards[i][1] = "Ace"}

StrictValue(cards) ==
  LET hard == HardTotal(cards, Len(cards))
      fits == {t \in {hard + 10 * j : j \in 0..Cardinality(Aces(cards))} :
                 t <= 21}
  IN IF fits = {} THEN hard ELSE CHOOSE t \in fits : \A u \in fits : u <= t

(* Every card sequence of up to MaxHandLen cards.                          *)
CardSeqs == UNION {[1..n -> HandCards] : n \in 0..MaxHandLen}

(* C15, as claimed: the cards held can be continued to a card sequence     *)
(* with more than one Ace whose add_card total is strictly lower than its  *)
(* strict blackjack value.  On the empty hand this is the bare existence   *)
(* of such a sequence.                                                     *)
C15_UnderCountExists ==
  \E cards \in CardSeqs :
    /\ Len(cards) >= Len(player.cards)
    /\ SubSeq(cards, 1, Len(player.cards)) = player.cards
    /\ Cardinality(Aces(cards)) > 1
    /\ HandOf(cards, Len(cards)).points < StrictValue(cards)

(* C15, amended: the total add_card keeps is never lower than the strict   *)
(* blackjack value of the cards held; where the two differ, add_card's is  *)
(* the higher one.                                                         *)
C15_NeverUnderCounts == player.points >= StrictValue(player.cards)

(* A hand with more than one Ace whose add_card total is above its strict  *)
(* value: the Ace counted 11 on arrival was not re-valued.                 *)
C15_Witness ==
  /\ Cardinality(Aces(player.cards)) > 1
  /\ player.points > StrictValue(player.cards)

(* C18: the two scoring implementations agree.  For every sequence of      *)
(* cards added to an empty hand, the points field kept by game.rs's        *)
(* add_card equals what card.rs's Hand::points() folds from the same cards *)
(* in the same order.                                                      *)
RECURSIVE card_rs_HandOf(_, _)
card_rs_HandOf(cards, n) ==
  IF n = 0 THEN card_rs_Hand_new
  ELSE card_rs_add_card(card_rs_HandOf(cards, n - 1), cards[n])

C18_ScoringAgrees ==
  player.points =
    card_rs_points(card_rs_HandOf(player.cards, Len(player.cards)))

(* A full-length hand with an Ace that counts 1.                           *)
C18_Witness ==
  /\ Len(player.cards) = MaxHandLen
  /\ \E i \in 1..Len(player.cards) :
       /\ player.cards[i][1] = "Ace"
       /\ card_rs_fold(player.cards, i) = card_rs_fold(player.cards, i - 1) + 1

(* The menu order Hit -> Stand -> Surrender -> Hit.                        *)
CycleNext(choice) ==
  CASE choice = "Hit" -> "Stand"
    [] choice = "Stand" -> "Surrender"
    [] choice = "Surrender" -> "Hit"

(* C16: menu cycling is a 3-cycle that touches only the highlight.  In     *)
(* Selecting, Up maps Hit->Stand, Stand->Surrender, Surrender->Hit; after  *)
(* two Ups (or two Downs) in a row all three choices have been visited and *)
(* a third one returns to the starting choice; Up and Down in Selecting    *)
(* never change the deck, either hand's cards or totals, and never leave   *)
(* the Selecting phase.                                                    *)
C16_MenuCycle ==
  [][(state[1] = "Selecting" /\ input' \in {"Up", "Down"}) =>
       (/\ state'[1] = "Selecting"
        /\ UNCHANGED <<deck, player, dealer, aborted>>
        /\ (input' = "Up" => state'[2] = CycleNext(state[2]))
        /\ ((input = input' /\ prev_state[1] = "Selecting") =>
              (/\ {prev_state[2], state[2], state'[2]} = Choice
               /\ update(Game', input', 1).state = prev_state)))]_vars

(* Two Downs in a row have just been made from Selecting(Stand).           *)
C16_Witness ==
  /\ input = "Down"
  /\ prev_state = Selecting("Surrender")
  /\ state = Selecting("Hit")
  /\ Len(player.cards) >= 3

(* C17: every round ends.  With Continue pressed again and again, and any  *)
(* Up and Down in between, a GameOver phase is reached infinitely often;   *)
(* from Selecting(Hit) the play leads to GameOver(Lose) unless the         *)
(* highlight is moved away, and from Standing it leads to some GameOver.   *)
C17_EveryRoundEnds ==
  /\ []<>(state[1] = "GameOver")
  /\ (state = Selecting("Hit")) ~>
       (state = GameOver("Lose") \/ state = Selecting("Stand"))
  /\ (state = Standing) ~> (state[1] = "GameOver")

(* A round ended by hitting until the bust, after at least two hits.       *)
C17_Witness ==
  /\ prev_state = Selecting("Hit")
  /\ input = "Continue"
  /\ state = GameOver("Lose")
  /\ Len(player.cards) >= 4
  /\ Len(dealer.cards) = 1

(* C19: player-turn invariant.  In every reachable state whose phase is    *)
(* Selecting, player.points <= 21, the player holds at least 2 cards and   *)
(* the dealer holds exactly 1; the dealer is given a card beyond the first *)
(* only by a Continue made in Selecting(Stand) or in Standing.             *)
C19_PlayerTurn ==
  /\ [](state[1] = "Selecting" =>
         (/\ player.points <= 21
          /\ Len(player.cards) >= 2
          /\ Len(dealer.cards) = 1))
  /\ [][(Len(dealer.cards') > Len(dealer.cards) /\ Len(dealer.cards) >= 1) =>
          (/\ input' = "Continue"
           /\ state \in {Selecting("Stand"), Standing})]_vars

(* The player has hit, stays at 21 or below and has moved to Stand.        *)
C19_Witness ==
  /\ state = Selecting("Stand")
  /\ Len(player.cards) >= 3
  /\ Len(dealer.cards) = 1
  /\ player.points <= 21

(* C20: outcome soundness.  GameOver(Win) implies player.points <= 21 and  *)
(* (dealer.points > 21 or 17 <= dealer.points < player.points);            *)
(* GameOver(Tie) implies 17 <= dealer.points = player.points <= 21; a      *)
(* state with player.points > 21 has phase GameOver(Lose).                 *)
C20_OutcomeSound ==
  /\ state = GameOver("Win") =>
       (/\ player.points <= 21
        /\ (\/ dealer.points > 21
            \/ (17 <= dealer.points /\ dealer.points < player.points)))
  /\ state = GameOver("Tie") =>
       (/\ 17 <= dealer.points
        /\ dealer.points = player.points
        /\ player.points <= 21)
  /\ player.points > 21 => state = GameOver("Lose")

(* A win on points, the dealer having stopped without busting.             *)
C20_Witness ==
  /\ state = GameOver("Win")
  /\ dealer.points <= 21
  /\ Len(dealer.cards) >= 3

====
